---- MODULE Spec2Model ----
(***************************************************************************)
(* Model of src/core/store/SimpleFSDirectory.cpp of Lucene++:              *)
(*   InputFile            the raw input handle (path, position, length)    *)
(*   SimpleFSIndexInput   the buffered input stream and its clones         *)
(*   OutputFile           the raw output handle (one open ofstream)        *)
(*   SimpleFSIndexOutput  the buffered output stream                       *)
(* The input side is a concurrent system: two threads call into the        *)
(* streams that share one InputFile.  The output side is sequential.       *)
(* Specifications: Spec (two threads fill, seek and clone), SpecFair (Spec *)
(* under fair scheduling), SpecValid (Spec with isValid), SpecLife (one     *)
(* thread, with close), SpecSnap                                            *)
(* (SpecLife while the file is resized), SpecChunk (chunk sizes up to the   *)
(* largest int32_t), SpecOut (the output stream), SpecRaw (the OutputFile). *)
(***************************************************************************)
EXTENDS Integers, Sequences, FiniteSets, TLC

\* ------------------------------------------------------------- bounds
MaxLen == 2
MaxChunk == 2
MaxReq == 2
MaxClones == 1
MaxWrites == 3
MaxBuffer == 2

\* --------------------------------------------------- program constants
FILE_EOF == -1
FILE_ERROR == -2
\* The largest int32_t: the type of length, total, chunkSize and readLength.
INT32_MAX == 2147483647

\* ------------------------------------------------------------ fixtures
FilePath == "segment"
Threads == {"T1", "T2"}
Streams == 0 .. MaxClones
\* The value of the local i of readInternal before a read has set it.
NoRead == FILE_ERROR - 1
\* The file as it is on disk when the stream is opened: byte k is 10 + k.
FileBytes == [k \in 1 .. MaxLen |-> 10 + k]
\* A file one byte longer: a fill of MaxReq bytes can end before its end.
LongFileBytes == [k \in 1 .. MaxLen + 1 |-> 10 + k]
\* Positions a caller may seek to: either side of [0, length] included.
Positions == -1 .. MaxLen + 1

VARIABLES
    disk,        \* path -> content: the bytes now stored under FilePath
    file,        \* the shared InputFile: [path, position, length]
    lock,        \* SyncLock on the InputFile: the holding thread, or "free"
    inp,         \* Streams -> SimpleFSIndexInput instance
    thr,         \* Threads -> the readInternal call the thread is in, its locals
    result,      \* how the call completed last ended: "ok" or the error raised
    closeCalls,  \* the streams whose close() called InputFile::close
    out,         \* the SimpleFSIndexOutput: [file, isOpen, buffer, bufferStart, bufferSize]
    ofile,       \* its OutputFile, an ofstream: [stream, good, pos, pending]
    odisk,       \* the bytes now stored under the output path
    olog         \* what the caller has done: [written, moved (sought or resized), last]

inVars == <<disk, file, lock, inp, thr, closeCalls>>
outVars == <<out, ofile, odisk, olog>>
vars == <<disk, file, lock, inp, thr, result, closeCalls, out, ofile, odisk, olog>>

Min(a, b) == IF a < b THEN a ELSE b

\* ---------------------------------------------------------- InputFile
\* InputFile::InputFile: position = 0, length = fileLength(path).
InputFile_new(path, content) ==
    [path |-> path, position |-> 0, length |-> Len(content)]

\* InputFile::setPosition: the assignment comes first, the range check second.
\* Returns the handle after the call and whether IOException was thrown.
InputFile_setPosition(f, position) ==
    [file |-> [f EXCEPT !.position = position],
     threw |-> (position < 0 \/ position > f.length)]

InputFile_getPosition(f) == f.position

\* InputFile::getLength: the length recorded by the constructor.
InputFile_getLength_stat(f) == Len(disk)
InputFile_getLength(f) == f.length

\* A fresh ifstream after seekg: seekg clears eofbit and no extraction has been
\* attempted, so eof() is false whatever the position is.
Ifstream_eofAfterSeekg(content, position) == FALSE

\* The counts file.read may deliver for a request of `most` available bytes:
\* all of them, or fewer on a short physical read.
Ifstream_gcounts(most) == 1 .. most

\* InputFile::read: the set of outcomes [ret, file, bytes].  The file is opened
\* anew from path and positioned with seekg; seekg to a negative offset fails.
InputFile_read(f, content, length) ==
    IF f.path # FilePath \/ f.position < 0
    THEN {[ret |-> FILE_ERROR, file |-> f, bytes |-> <<>>]}
    ELSE IF Ifstream_eofAfterSeekg(content, f.position)
    THEN {[ret |-> FILE_EOF, file |-> f, bytes |-> <<>>]}
    ELSE LET avail == IF Len(content) > f.position
                      THEN Len(content) - f.position ELSE 0
             most == Min(length, avail)
         IN  IF most = 0
             THEN {[ret |-> 0, file |-> f, bytes |-> <<>>]}
             ELSE {[ret |-> n,
                    file |-> [f EXCEPT !.position = @ + n],
                    bytes |-> SubSeq(content, f.position + 1, f.position + n)]
                   : n \in Ifstream_gcounts(most)}

\* InputFile::isValid: a fresh ifstream on path is open and good after
\* seekg(position); seekg fails for a negative offset only.
InputFile_isValid(f) == f.path = FilePath /\ f.position >= 0

\* The answers of isValid.  It reads position without the lock: while another
\* thread is inside its fill that read races with the fill's writes of position
\* (a data race), and either answer may come out.
SimpleFSIndexInput_isValid(f, l, t) ==
    IF l \notin {"free", t} THEN BOOLEAN ELSE {InputFile_isValid(f)}

\* InputFile::close: NOOP.
InputFile_close_releasing(f) == [f EXCEPT !.path = ""]
InputFile_close(f) == f

\* --------------------------------------------------- SimpleFSIndexInput
NoStream ==
    [created |-> FALSE, isClone |-> FALSE, chunkSize |-> 0,
     filePointer |-> 0, closed |-> FALSE]

\* SimpleFSIndexInput::SimpleFSIndexInput(path, bufferSize, chunkSize).
SimpleFSIndexInput_new(chunk) ==
    [created |-> TRUE, isClone |-> FALSE, chunkSize |-> chunk,
     filePointer |-> 0, closed |-> FALSE]

\* BufferedIndexInput::getFilePointer: the stream's logical position.
getFilePointer(st) == st.filePointer

\* SimpleFSIndexInput::seekInternal: empty body, the handle is not touched.
seekInternal_repositioning(f, pos) == [f EXCEPT !.position = pos]
seekInternal(f, pos) == f

\* BufferedIndexInput::seek: a logical update followed by seekInternal.
BufferedIndexInput_seek(st, pos) == [st EXCEPT !.filePointer = pos]

\* SimpleFSIndexInput::clone: the base clone copies the logical position; path,
\* file and chunkSize are copied and isClone is set.
SimpleFSIndexInput_clone_rewound(st) ==
    [created |-> TRUE, isClone |-> TRUE, chunkSize |-> st.chunkSize,
     filePointer |-> 0, closed |-> FALSE]
SimpleFSIndexInput_clone(st) ==
    [created |-> TRUE, isClone |-> TRUE, chunkSize |-> st.chunkSize,
     filePointer |-> st.filePointer, closed |-> FALSE]

\* SimpleFSIndexInput::length: file->getLength().
SimpleFSIndexInput_length(f) == InputFile_getLength(f)

\* SimpleFSIndexInput::close: whether this close calls file->close().
close_callsFileClose_always(st) == TRUE
close_callsFileClose(st) == ~st.isClone

\* SyncLock fileLock(file): a thread enters only while no thread holds the lock.
SyncLock_available_unlocked(l) == TRUE
SyncLock_available(l) == l = "free"

\* The SyncLock goes out of scope, by return or by an exception unwinding
\* readInternal: the lock its holder took is released.
SyncLock_unwind(holder) == "free"

\* readInternal, line 126: the size of the next physical read.
readLength(total, chunk, length) ==
    IF total + chunk > length THEN length - total ELSE chunk

\* Whether total + chunkSize at line 126 exceeds the largest int32_t: signed
\* overflow.
readLength_overflows(total, chunk) == total > INT32_MAX - chunk

\* The sizes line 126 may produce.  When the sum overflows the behaviour is
\* undefined: the sum wraps to a negative value and the comparison is false
\* (chunkSize is chosen), or it is evaluated in a wider register and is true.
readLengths(total, chunk, length) ==
    IF readLength_overflows(total, chunk)
    THEN {chunk, length - total}
    ELSE {readLength(total, chunk, length)}

\* Whether a read that delivered i bytes wrote past b[offset + length): if so
\* the process faults at once or the overrun goes unnoticed.
BufferOverrun(total, i, length) ==
    IF i > 0 /\ total + i > length THEN BOOLEAN ELSE {FALSE}

\* readInternal, line 119: whether the handle must be repositioned.
needsSetPosition(position, f) == position # InputFile_getPosition(f)

\* ---------------------------------------------------------- OutputFile
Max(a, b) == IF a > b THEN a ELSE b

\* The content of a file after bytes are written at offset pos: bytes behind
\* the old end are zero-filled.
WriteAt(content, pos, bytes) ==
    IF bytes = <<>> THEN content
    ELSE [k \in 1 .. Max(Len(content), pos + Len(bytes)) |->
             IF k > pos /\ k <= pos + Len(bytes) THEN bytes[k - pos]
             ELSE IF k <= Len(content) THEN content[k]
             ELSE 0]

\* OutputFile::OutputFile: an ofstream opened on the path, which is created
\* or truncated.  pending is what the ofstream has buffered for offset pos.
OutputFile_new == [stream |-> "open", good |-> TRUE, pos |-> 0, pending |-> <<>>]

\* ofstream::flush: the buffered bytes reach the file at the write cursor.
Ofstream_flush(of, content) ==
    [of |-> [of EXCEPT !.pending = <<>>, !.pos = @ + Len(of.pending)],
     disk |-> WriteAt(content, of.pos, of.pending)]

\* OutputFile::write: throws when the stream is not open; a stream that is not
\* good writes nothing; throws when the stream is not good after the write.
OutputFile_write_short(of, bytes) ==
    IF of.stream # "open" THEN [of |-> of, threw |-> "Closed"]
    ELSE IF ~of.good THEN [of |-> of, threw |-> "IOFailure"]
    ELSE [of |-> [of EXCEPT !.pending = @ \o SubSeq(bytes, 1, Len(bytes) - 1)],
          threw |-> "no"]
OutputFile_write(of, bytes) ==
    IF of.stream # "open" THEN [of |-> of, threw |-> "Closed"]
    ELSE IF ~of.good THEN [of |-> of, threw |-> "IOFailure"]
    ELSE [of |-> [of EXCEPT !.pending = @ \o bytes], threw |-> "no"]

\* OutputFile::flush: flushes the ofstream if it is open.
OutputFile_flush(of, content) ==
    IF of.stream = "open" /\ of.good
    THEN Ofstream_flush(of, content)
    ELSE [of |-> of, disk |-> content]

\* OutputFile::setPosition: seekp, which does nothing on a stream that has
\* failed and fails for a negative offset; throws when the stream is not good.
OutputFile_setPosition_staying(of, content, position) ==
    IF ~of.good THEN [of |-> of, disk |-> content, threw |-> "IOFailure"]
    ELSE LET f == Ofstream_flush(of, content)
         IN  [of |-> f.of, disk |-> f.disk, threw |-> "no"]
OutputFile_setPosition(of, content, position) ==
    IF ~of.good THEN [of |-> of, disk |-> content, threw |-> "IOFailure"]
    ELSE LET f == Ofstream_flush(of, content)
         IN  IF position < 0
             THEN [of |-> [f.of EXCEPT !.good = FALSE], disk |-> f.disk,
                   threw |-> "IOFailure"]
             ELSE [of |-> [f.of EXCEPT !.pos = position], disk |-> f.disk,
                   threw |-> "no"]

\* The OutputFile is released (OutputFile::close, or the last pointer to it
\* reset): the ofstream is destroyed, which writes out what it has buffered.
OutputFile_close(of, content) ==
    LET f == IF of.stream = "open" /\ of.good
             THEN Ofstream_flush(of, content)
             ELSE [of |-> of, disk |-> content]
    IN  [of |-> [f.of EXCEPT !.stream = "null", !.pending = <<>>], disk |-> f.disk]

\* OutputFile::getLength: the size of the file under path, whatever the state
\* of the ofstream.
OutputFile_getLength(content) == Len(content)

\* OutputFile::setLength: the file under path is cut or zero-extended to length.
OutputFile_setLength(content, length) ==
    [k \in 1 .. length |-> IF k <= Len(content) THEN content[k] ELSE 0]

\* OutputFile::isValid: file && file->is_open() && file->good().
OutputFile_isValid(of) == of.stream = "open" /\ of.good

\* file-> on the pointer close() has reset: undefined behaviour.  The pointer's
\* assertion aborts the process, or the null ofstream is accessed and faults.
NullDeref == {"Abort", "Segfault"}

\* -------------------------------------------------- SimpleFSIndexOutput
\* SimpleFSIndexOutput::SimpleFSIndexOutput: file = new OutputFile, isOpen = true.
SimpleFSIndexOutput_new(size) ==
    [file |-> "set", isOpen |-> TRUE, buffer |-> <<>>, bufferStart |-> 0,
     bufferSize |-> size]

\* SimpleFSIndexOutput::flushBuffer: file->write, then file->flush.
flushBuffer(of, content, bytes) ==
    LET w == OutputFile_write(of, bytes)
    IN  IF w.threw # "no"
        THEN [of |-> w.of, disk |-> content, threw |-> w.threw]
        ELSE LET f == OutputFile_flush(w.of, content)
             IN  [of |-> f.of, disk |-> f.disk, threw |-> "no"]

\* SimpleFSIndexOutput::length: file->getLength().
SimpleFSIndexOutput_length(content) == OutputFile_getLength(content)

\* BufferedIndexOutput::flush: the buffer goes through flushBuffer and, if that
\* returns, is emptied.
BufferedIndexOutput_flush(o, of, content) ==
    LET r == flushBuffer(of, content, o.buffer)
    IN  [out |-> IF r.threw = "no"
                 THEN [o EXCEPT !.bufferStart = @ + Len(o.buffer), !.buffer = <<>>]
                 ELSE o,
         of |-> r.of, disk |-> r.disk, threw |-> r.threw]


\* ------------------------------------------------------------ threads
Idle ==
    [pc |-> "idle", cur |-> 0, length |-> 0, b |-> <<>>, i |-> NoRead]

\* The bytes accumulated so far by the fill of thread t (total, line 123/137).
total(t) == Len(thr[t].b)

InUse(s) == \E t \in Threads : thr[t].pc # "idle" /\ thr[t].cur = s

\* The input side after openInput(name, bufferSize) with read chunk size chunk.
InitInputOn(content, chunk) ==
    /\ disk = content
    /\ file = InputFile_new(FilePath, content)
    /\ lock = "free"
    /\ inp = [s \in Streams |->
                 IF s = 0 THEN SimpleFSIndexInput_new(chunk) ELSE NoStream]
    /\ thr = [t \in Threads |-> Idle]
    /\ closeCalls = {}

InitInput(chunk) == InitInputOn(FileBytes, chunk)

\* The output side after createOutput(name), the buffer holding size bytes.
InitOutput(size) ==
    /\ out = SimpleFSIndexOutput_new(size)
    /\ ofile = OutputFile_new
    /\ odisk = <<>>
    /\ olog = [written |-> <<>>, moved |-> FALSE, last |-> "open"]

Init ==
    /\ \E chunk \in 1 .. MaxChunk : InitInput(chunk)
    /\ InitOutput(1)
    /\ result = "ok"

\* seek(pos) on stream s, by a caller that is in no readInternal call on s.
Seek(s, pos) ==
    /\ inp[s].created /\ ~InUse(s)
    /\ inp' = [inp EXCEPT ![s] = BufferedIndexInput_seek(@, pos)]
    /\ file' = seekInternal(file, pos)
    /\ result' = "ok"
    /\ UNCHANGED <<disk, lock, thr, closeCalls>>
    /\ UNCHANGED outVars

\* clone() of stream s; the clone takes the next free identity.
Clone(s, n) ==
    /\ inp[s].created /\ ~InUse(s)
    /\ ~inp[n].created
    /\ \A m \in Streams : m < n => inp[m].created
    /\ inp' = [inp EXCEPT ![n] = SimpleFSIndexInput_clone(inp[s])]
    /\ result' = "ok"
    /\ UNCHANGED <<disk, file, lock, thr, closeCalls>>
    /\ UNCHANGED outVars

\* close() of stream s.
Close(s) ==
    /\ inp[s].created /\ ~InUse(s)
    /\ inp' = [inp EXCEPT ![s].closed = TRUE]
    /\ IF close_callsFileClose(inp[s])
       THEN /\ file' = InputFile_close(file)
            /\ closeCalls' = closeCalls \cup {s}
       ELSE UNCHANGED <<file, closeCalls>>
    /\ result' = "ok"
    /\ UNCHANGED <<disk, lock, thr>>
    /\ UNCHANGED outVars

\* Thread t calls readInternal(b, offset, length) on stream s and reaches the
\* SyncLock at line 116.
Read(t, s, length) ==
    /\ thr[t].pc = "idle"
    /\ inp[s].created /\ ~InUse(s)
    /\ thr' = [thr EXCEPT ![t] =
                  [pc |-> "acquire", cur |-> s, length |-> length, b |-> <<>>,
                   i |-> NoRead]]
    /\ UNCHANGED <<disk, file, lock, inp, result, closeCalls>>
    /\ UNCHANGED outVars

\* readInternal, lines 116-121: take the lock, reconcile the handle's position
\* with the stream's; a throwing setPosition unwinds and releases the lock.
Enter(t) ==
    /\ thr[t].pc = "acquire"
    /\ SyncLock_available(lock)
    /\ LET position == getFilePointer(inp[thr[t].cur])
           set == InputFile_setPosition(file, position)
       IN  IF needsSetPosition(position, file)
           THEN /\ file' = set.file
                /\ IF set.threw
                   THEN /\ thr' = [thr EXCEPT ![t] = Idle]
                        /\ result' = "OutOfRange"
                        /\ lock' = SyncLock_unwind(t)
                   ELSE /\ thr' = [thr EXCEPT ![t].pc = "loop"]
                        /\ lock' = t
                        /\ UNCHANGED result
           ELSE /\ thr' = [thr EXCEPT ![t].pc = "loop"]
                /\ lock' = t
                /\ UNCHANGED <<file, result>>
    /\ UNCHANGED <<disk, inp, closeCalls>>
    /\ UNCHANGED outVars

\* readInternal, lines 125-139: one iteration of the loop, or its exit.  On
\* the exit the lock is released and the buffered layer advances the stream's
\* logical position by the bytes delivered.
Loop(t) ==
    /\ thr[t].pc = "loop"
    /\ LET s == thr[t].cur
           length == thr[t].length
       IN  IF total(t) < length
           THEN \E rl \in readLengths(total(t), inp[s].chunkSize, length) :
                \E rd \in InputFile_read(file, disk, rl) :
                \E fault \in BufferOverrun(total(t), rd.ret, length) :
                  /\ file' = rd.file
                  /\ IF rd.ret = FILE_EOF
                     THEN /\ thr' = [thr EXCEPT ![t] = Idle]
                          /\ result' = "UnexpectedEndOfFile"
                          /\ lock' = SyncLock_unwind(t)
                     ELSE IF rd.ret = FILE_ERROR
                     THEN /\ thr' = [thr EXCEPT ![t] = Idle]
                          /\ result' = "IOFailure"
                          /\ lock' = SyncLock_unwind(t)
                     ELSE IF fault
                     THEN /\ thr' = [thr EXCEPT ![t].pc = "fault"]
                          /\ result' = "Segfault"
                          /\ UNCHANGED lock
                     ELSE /\ thr' = [thr EXCEPT ![t].b = @ \o rd.bytes,
                                                ![t].i = rd.ret]
                          /\ UNCHANGED <<lock, result>>
                  /\ UNCHANGED inp
           ELSE /\ thr' = [thr EXCEPT ![t] = Idle]
                /\ result' = "ok"
                /\ lock' = SyncLock_unwind(t)
                /\ inp' = [inp EXCEPT ![s].filePointer = @ + length]
                /\ UNCHANGED file
    /\ UNCHANGED <<disk, closeCalls>>
    /\ UNCHANGED outVars

\* SimpleFSIndexInput::isValid on stream s by thread t: file->isValid(), with
\* no SyncLock.
IsValid(t, s) ==
    /\ thr[t].pc = "idle"
    /\ inp[s].created
    /\ \E v \in SimpleFSIndexInput_isValid(file, lock, t) :
          result' = IF v THEN "valid" ELSE "invalid"
    /\ UNCHANGED <<disk, file, lock, inp, thr, closeCalls>>
    /\ UNCHANGED outVars

\* The streams under concurrent use: two threads fill through the shared handle
\* while streams are sought and cloned.
Next ==
    \/ \E s \in Streams, pos \in Positions : Seek(s, pos)
    \/ \E s \in Streams, n \in Streams : Clone(s, n)
    \/ \E t \in Threads :
          \/ \E s \in Streams, length \in 1 .. MaxReq : Read(t, s, length)
          \/ Enter(t)
          \/ Loop(t)

Spec == Init /\ [][Next]_vars

\* Spec with the scheduling the threads and the SyncLock provide: a thread
\* inside its loop goes on running, and a thread waiting for the lock obtains it
\* if the lock is free again and again.
SpecFair ==
    /\ Init
    /\ [][Next]_vars
    /\ \A t \in Threads : SF_vars(Enter(t)) /\ WF_vars(Loop(t))

\* The same with the health check called at any moment by an idle thread.
NextValid ==
    \/ Next
    \/ \E t \in Threads, s \in Streams : IsValid(t, s)

SpecValid == Init /\ [][NextValid]_vars

\* The chunk sizes of the fill loop's arithmetic: the small ones and the
\* largest one a caller can pass.
ChunkSizes == (1 .. MaxChunk) \cup {INT32_MAX}

InitChunk ==
    /\ \E chunk \in ChunkSizes : InitInputOn(LongFileBytes, chunk)
    /\ InitOutput(1)
    /\ result = "ok"

\* One thread seeks and fills through the original stream.
NextChunk ==
    \/ \E pos \in Positions : Seek(0, pos)
    \/ \E length \in 1 .. MaxReq : Read("T1", 0, length)
    \/ Enter("T1")
    \/ Loop("T1")

SpecChunk == InitChunk /\ [][NextChunk]_vars

\* The life cycle of the streams: one thread opens, seeks, clones, reads and
\* closes them in any order.
NextLife ==
    \/ \E s \in Streams, pos \in Positions : Seek(s, pos)
    \/ \E s \in Streams, n \in Streams : Clone(s, n)
    \/ \E s \in Streams : Close(s)
    \/ \E s \in Streams, length \in 1 .. MaxReq : Read("T1", s, length)
    \/ Enter("T1")
    \/ Loop("T1")

SpecLife == Init /\ [][NextLife]_vars

\* Another process cuts the file to n bytes or extends it to n bytes.
ExternalResize(n) ==
    /\ n # Len(disk)
    /\ disk' = [k \in 1 .. n |-> IF k <= Len(disk) THEN disk[k] ELSE 10 + k]
    /\ UNCHANGED <<file, lock, inp, thr, result, closeCalls>>
    /\ UNCHANGED outVars

\* The life cycle of the streams while the file changes size under them.
NextSnap ==
    \/ \E s \in Streams, pos \in 0 .. MaxLen : Seek(s, pos)
    \/ \E s \in Streams, n \in Streams : Clone(s, n)
    \/ \E s \in Streams : Close(s)
    \/ \E s \in Streams, length \in 1 .. MaxReq : Read("T1", s, length)
    \/ Enter("T1")
    \/ Loop("T1")
    \/ \E n \in MaxLen - 1 .. MaxLen + 1 : ExternalResize(n)

SpecSnap == Init /\ [][NextSnap]_vars

\* ------------------------------------------------------- output stream
\* The byte the caller writes next: the k-th byte written is 20 + k.
NextByte == 20 + Len(olog.written) + 1

\* writeByte: a full buffer is flushed first; the byte then goes to the buffer.
WriteByte ==
    /\ out.file # "null"
    /\ Len(olog.written) < MaxWrites
    /\ LET full == Len(out.buffer) >= out.bufferSize
           r == IF full THEN BufferedIndexOutput_flush(out, ofile, odisk)
                ELSE [out |-> out, of |-> ofile, disk |-> odisk, threw |-> "no"]
       IN  /\ ofile' = r.of
           /\ odisk' = r.disk
           /\ IF r.threw = "no"
              THEN /\ out' = [r.out EXCEPT !.buffer = @ \o <<NextByte>>]
                   /\ olog' = [olog EXCEPT !.written = @ \o <<NextByte>>,
                                            !.last = "writeByte"]
                   /\ result' = "ok"
              ELSE /\ out' = r.out
                   /\ result' = r.threw
                   /\ olog' = [olog EXCEPT !.last = "writeByte"]
    /\ UNCHANGED inVars

\* flush() of the output stream.
Flush ==
    /\ out.file # "null"
    /\ LET r == BufferedIndexOutput_flush(out, ofile, odisk)
       IN  /\ out' = r.out
           /\ ofile' = r.of
           /\ odisk' = r.disk
           /\ result' = IF r.threw = "no" THEN "ok" ELSE r.threw
    /\ olog' = [olog EXCEPT !.last = "flush"]
    /\ UNCHANGED inVars

\* SimpleFSIndexOutput::seek: BufferedIndexOutput::seek flushes and moves the
\* buffer start; then file->setPosition(pos).
SeekOut(pos) ==
    /\ out.file # "null"
    /\ LET r == BufferedIndexOutput_flush(out, ofile, odisk)
           p == OutputFile_setPosition(r.of, r.disk, pos)
       IN  IF r.threw # "no"
           THEN /\ out' = r.out
                /\ ofile' = r.of
                /\ odisk' = r.disk
                /\ result' = r.threw
           ELSE /\ out' = [r.out EXCEPT !.bufferStart = pos]
                /\ ofile' = p.of
                /\ odisk' = p.disk
                /\ result' = IF p.threw = "no" THEN "ok" ELSE p.threw
    /\ olog' = [olog EXCEPT !.moved = TRUE, !.last = "seek"]
    /\ UNCHANGED inVars

\* SimpleFSIndexOutput::close: if isOpen, BufferedIndexOutput::close (a flush),
\* file.reset() and isOpen = false; a throwing flush leaves the rest undone.
CloseOut ==
    /\ IF out.isOpen
       THEN LET r == BufferedIndexOutput_flush(out, ofile, odisk)
                c == OutputFile_close(r.of, r.disk)
            IN  IF r.threw # "no"
                THEN /\ out' = r.out
                     /\ ofile' = r.of
                     /\ odisk' = r.disk
                     /\ result' = r.threw
                ELSE /\ out' = [r.out EXCEPT !.file = "null", !.isOpen = FALSE]
                     /\ ofile' = c.of
                     /\ odisk' = c.disk
                     /\ result' = "ok"
       ELSE /\ result' = "ok"
            /\ UNCHANGED <<out, ofile, odisk>>
    /\ olog' = [olog EXCEPT !.last = "close"]
    /\ UNCHANGED inVars

\* SimpleFSIndexOutput::setLength: file->setLength(length).  The file under the
\* stream is cut or zero-extended; the buffer and the ofstream, its write
\* cursor included, are left as they are.
SetLengthOut(length) ==
    /\ out.file # "null"
    /\ odisk' = OutputFile_setLength(odisk, length)
    /\ result' = "ok"
    /\ olog' = [olog EXCEPT !.moved = TRUE, !.last = "setLength"]
    /\ UNCHANGED <<out, ofile>>
    /\ UNCHANGED inVars

\* SimpleFSIndexOutput::length: file->getLength(), the size of the file now on
\* disk, without the bytes still buffered.  Nothing is changed.
LengthOut ==
    /\ out.file # "null"
    /\ SimpleFSIndexOutput_length(odisk) = Len(odisk)
    /\ result' = "ok"
    /\ olog' = [olog EXCEPT !.last = "length"]
    /\ UNCHANGED <<out, ofile, odisk>>
    /\ UNCHANGED inVars

NextOut ==
    \/ WriteByte
    \/ Flush
    \/ \E pos \in Positions : SeekOut(pos)
    \/ \E length \in 0 .. MaxLen : SetLengthOut(length)
    \/ LengthOut
    \/ CloseOut

InitOut ==
    /\ InitInput(1)
    /\ \E size \in 1 .. MaxBuffer : InitOutput(size)
    /\ result = "ok"

SpecOut == InitOut /\ [][NextOut]_vars

\* ---------------------------------------------------- raw output handle
\* The OutputFile used directly.  A process that has aborted or faulted makes
\* no further call.
Running == result \notin NullDeref

\* OutputFile::write of the next byte.
RawWrite ==
    /\ Running
    /\ Len(olog.written) < MaxWrites
    /\ IF ofile.stream = "null"
       THEN /\ result' \in NullDeref
            /\ olog' = [olog EXCEPT !.last = "write"]
            /\ UNCHANGED ofile
       ELSE LET w == OutputFile_write(ofile, <<NextByte>>)
            IN  /\ ofile' = w.of
                /\ result' = IF w.threw = "no" THEN "ok" ELSE w.threw
                /\ olog' = IF w.threw = "no"
                           THEN [olog EXCEPT !.written = @ \o <<NextByte>>,
                                             !.last = "write"]
                           ELSE [olog EXCEPT !.last = "write"]
    /\ UNCHANGED <<out, odisk>>
    /\ UNCHANGED inVars

\* OutputFile::flush.
RawFlush ==
    /\ Running
    /\ IF ofile.stream = "null"
       THEN /\ result' \in NullDeref
            /\ UNCHANGED <<ofile, odisk>>
       ELSE LET f == OutputFile_flush(ofile, odisk)
            IN  /\ ofile' = f.of
                /\ odisk' = f.disk
                /\ result' = "ok"
    /\ olog' = [olog EXCEPT !.last = "flush"]
    /\ UNCHANGED out
    /\ UNCHANGED inVars

\* OutputFile::setPosition.
RawSetPosition(pos) ==
    /\ Running
    /\ IF ofile.stream = "null"
       THEN /\ result' \in NullDeref
            /\ UNCHANGED <<ofile, odisk>>
       ELSE LET p == OutputFile_setPosition(ofile, odisk, pos)
            IN  /\ ofile' = p.of
                /\ odisk' = p.disk
                /\ result' = IF p.threw = "no" THEN "ok" ELSE p.threw
    /\ olog' = [olog EXCEPT !.moved = TRUE, !.last = "setPosition"]
    /\ UNCHANGED out
    /\ UNCHANGED inVars

\* OutputFile::getLength: returns the file's size; it does not use the ofstream.
RawGetLength ==
    /\ Running
    /\ OutputFile_getLength(odisk) >= 0
    /\ result' = "ok"
    /\ olog' = [olog EXCEPT !.last = "getLength"]
    /\ UNCHANGED <<out, ofile, odisk>>
    /\ UNCHANGED inVars

\* OutputFile::setLength: resizes the file; it does not use the ofstream.
RawSetLength(length) ==
    /\ Running
    /\ odisk' = OutputFile_setLength(odisk, length)
    /\ result' = "ok"
    /\ olog' = [olog EXCEPT !.moved = TRUE, !.last = "setLength"]
    /\ UNCHANGED <<out, ofile>>
    /\ UNCHANGED inVars

\* OutputFile::isValid.
RawIsValid ==
    /\ Running
    /\ result' = IF OutputFile_isValid(ofile) THEN "valid" ELSE "invalid"
    /\ olog' = [olog EXCEPT !.last = "isValid"]
    /\ UNCHANGED <<out, ofile, odisk>>
    /\ UNCHANGED inVars

\* OutputFile::close: file.reset().
RawClose ==
    /\ Running
    /\ LET c == OutputFile_close(ofile, odisk)
       IN  /\ ofile' = c.of
           /\ odisk' = c.disk
    /\ result' = "ok"
    /\ olog' = [olog EXCEPT !.last = "close"]
    /\ UNCHANGED out
    /\ UNCHANGED inVars

NextRaw ==
    \/ RawWrite
    \/ RawFlush
    \/ \E pos \in Positions : RawSetPosition(pos)
    \/ RawGetLength
    \/ \E length \in 0 .. MaxLen : RawSetLength(length)
    \/ RawIsValid
    \/ RawClose

InitRaw ==
    /\ InitInput(1)
    /\ InitOutput(1)
    /\ result = "ok"

SpecRaw == InitRaw /\ [][NextRaw]_vars

\* ------------------------------------------------------------- claims
\* The logical position of the stream thread t is filling.
fillStart(t) == getFilePointer(inp[thr[t].cur])

\* The file as it was when the stream was opened.
OpenedBytes == [k \in 1 .. InputFile_getLength(file) |-> 10 + k]

\* Whether b holds exactly the file's bytes at offsets [n, n + Len(b)).
IsFileRange(b, n) ==
    /\ n >= 0
    /\ n + Len(b) <= Len(OpenedBytes)
    /\ b = SubSeq(OpenedBytes, n + 1, n + Len(b))

\* A fill whose whole range [n, n + length) lies inside the file.
InRangeFill(t) ==
    /\ thr[t].pc # "idle"
    /\ fillStart(t) >= 0
    /\ fillStart(t) + thr[t].length <= InputFile_getLength(file)

\* A fill that starts inside [0, length] and asks for bytes past the end.
PastEndFill(t) ==
    /\ thr[t].pc # "idle"
    /\ fillStart(t) >= 0
    /\ fillStart(t) <= InputFile_getLength(file)
    /\ fillStart(t) + thr[t].length > InputFile_getLength(file)

\* The step in which thread t's readInternal call ends (returns or throws).
Ends(t) == thr[t].pc # "idle" /\ thr'[t].pc = "idle"

\* C1: with fills running concurrently on streams that share the handle, every
\* fill holds the lock alone while it reads, the bytes it has received are the
\* file's bytes at [its own logical position, + total), never more than it
\* asked for, and the handle's position is its own position plus its total: no
\* other fill's repositioning has been mixed in and none of its advances lost.
C1_ConcurrentFillsSerialize ==
    \A t \in Threads :
        thr[t].pc = "loop" =>
            /\ lock = t
            /\ total(t) <= thr[t].length
            /\ total(t) > 0 => IsFileRange(thr[t].b, fillStart(t))
            /\ InputFile_getPosition(file) = fillStart(t) + total(t)

\* Witness of C1: one thread has received its two bytes through a clone while
\* the other thread waits for the lock to fill an overlapping range of another
\* stream.
C1_Witness ==
    \E t, u \in Threads :
        /\ thr[t].pc = "loop" /\ total(t) = thr[t].length /\ total(t) >= 2
        /\ inp[thr[t].cur].isClone
        /\ thr[u].pc = "acquire" /\ thr[u].cur # thr[t].cur
        /\ fillStart(u) >= fillStart(t)
        /\ fillStart(u) < fillStart(t) + total(t)

\* C2: a read of k bytes at a logical position n with 0 <= n and n + k <= length
\* ends successfully, for every chunk size, whatever position the handle was
\* left at and however the physical reads were cut short, and delivers exactly
\* the file's bytes [n, n + k), each once and in order, and no more.
C2_SeekReadReturnsRange ==
    [][\A t \in Threads :
          (InRangeFill(t) /\ Ends(t)) =>
              /\ result' = "ok"
              /\ Len(thr[t].b) = thr[t].length
              /\ IsFileRange(thr[t].b, fillStart(t))]_vars

\* C3: a fill that asks for bytes past the end of the file raises
\* UnexpectedEndOfFile at the physical read that finds the handle at the end of
\* the data, and never ends successfully.
C3_ReadPastEndFails ==
    [][\A t \in Threads :
          PastEndFill(t) =>
              /\ (/\ thr[t].pc = "loop"
                  /\ InputFile_getPosition(file) >= Len(disk)
                  /\ thr'[t] # thr[t])
                   => (thr'[t].pc = "idle" /\ result' = "UnexpectedEndOfFile")
              /\ Ends(t) => result' # "ok"]_vars

\* A fill that has made no progress in its last iteration and whose next
\* iteration reproduces the present state: it spins with the lock held.
Stalled(t) ==
    /\ thr[t].pc = "loop"
    /\ total(t) < thr[t].length
    /\ thr[t].i = 0
    /\ \A rl \in readLengths(total(t), inp[thr[t].cur].chunkSize, thr[t].length) :
          InputFile_read(file, disk, rl)
              = {[ret |-> 0, file |-> file, bytes |-> <<>>]}

\* C4: the fill loop terminates: no fill ever reaches a state that its next
\* iteration repeats without progress and without an error.
C4_FillTerminates == \A t \in Threads : ~Stalled(t)

\* C10: setting a position outside [0, length] fails with OutOfRange, in
\* seek on a stream and in the setPosition a fill performs on the handle.
C10_OutOfRangeRejected ==
    [][/\ \A s \in Streams, pos \in Positions :
             (Seek(s, pos) /\ (pos < 0 \/ pos > InputFile_getLength(file)))
                 => result' = "OutOfRange"
       /\ \A t \in Threads :
             (/\ Enter(t)
              /\ needsSetPosition(fillStart(t), file)
              /\ (fillStart(t) < 0 \/ fillStart(t) > InputFile_getLength(file)))
                 => (result' = "OutOfRange" /\ thr'[t].pc = "idle")]_vars

\* The part of C10 the code keeps: the setPosition of a fill rejects a position
\* outside [0, length].
C10_SetPositionRejects ==
    [][\A t \in Threads :
          (/\ Enter(t)
           /\ needsSetPosition(fillStart(t), file)
           /\ (fillStart(t) < 0 \/ fillStart(t) > InputFile_getLength(file)))
              => (result' = "OutOfRange" /\ thr'[t].pc = "idle")]_vars

\* C6: only the close of a non-clone calls the handle's close, and once a
\* clone has been closed the handle is as it was opened and the fills of the
\* other streams still receive the file's bytes at their own positions.
C6_CloneCloseKeepsHandle ==
    /\ \A s \in closeCalls : ~inp[s].isClone
    /\ (\E c \in Streams : inp[c].isClone /\ inp[c].closed) =>
          /\ file.path = FilePath
          /\ InputFile_getLength(file) = Len(FileBytes)
          /\ \A t \in Threads :
                (thr[t].pc = "loop" /\ total(t) > 0) =>
                    IsFileRange(thr[t].b, fillStart(t))

\* Witness of C6: a clone is closed and a fill through the original, still
\* open, has received all its bytes.
C6_Witness ==
    /\ \E c \in Streams : inp[c].isClone /\ inp[c].closed
    /\ thr["T1"].pc = "loop" /\ thr["T1"].cur = 0 /\ ~inp[0].closed
    /\ total("T1") = thr["T1"].length /\ total("T1") >= 2

\* C7: after the originating stream is closed, every read through a clone whose
\* range lies inside the file still ends successfully with the file's bytes at
\* the clone's own logical position.
C7_CloneReadsAfterOriginalClose ==
    [][\A t \in Threads :
          (/\ inp[0].closed
           /\ inp[thr[t].cur].isClone
           /\ InRangeFill(t)
           /\ thr'[t] # thr[t])
              => /\ Ends(t) => result' = "ok" /\ Len(thr[t].b) = thr[t].length
                 /\ IsFileRange(thr'[t].b, fillStart(t))]_vars

\* Witness of C7: the original is closed and a fill through a clone that is
\* still open has received all its bytes.
C7_Witness ==
    /\ inp[0].closed /\ 0 \in closeCalls
    /\ thr["T1"].pc = "loop" /\ inp[thr["T1"].cur].isClone
    /\ ~inp[thr["T1"].cur].closed
    /\ total("T1") = thr["T1"].length /\ total("T1") >= 2

\* C8: once a non-clone stream has been closed, a read on it is rejected: no
\* fill of a closed non-clone stream ever holds the lock and reads.
C8_ClosedRejectsReads ==
    \A t \in Threads :
        thr[t].pc = "loop" =>
            ~(inp[thr[t].cur].closed /\ ~inp[thr[t].cur].isClone)

\* C5: as long as the caller has only written, flushed and closed, no byte is
\* lost, duplicated or reordered: while the stream is open the file followed by
\* the buffer is the sequence of bytes written, and once it is closed the file
\* alone is that sequence.
C5_OutputKeepsBytes ==
    ~olog.moved =>
        /\ out.isOpen => odisk \o ofile.pending \o out.buffer = olog.written
        /\ ~out.isOpen => odisk = olog.written

\* Witness of C5: the stream is closed after every byte the bound allows was
\* written through a buffer of one byte, hence in several flushBuffer calls.
C5_Witness ==
    /\ ~out.isOpen /\ ~olog.moved
    /\ out.bufferSize = 1
    /\ Len(olog.written) = MaxWrites
    /\ odisk = olog.written

\* C9: every close of an open output stream flushes the buffer, releases the
\* raw handle and sets isOpen = false; every close of a stream that is not open
\* raises no error and changes neither the stream, the handle nor the file.
C9_CloseIdempotent ==
    [][CloseOut =>
          /\ out.isOpen =>
                (/\ ~out'.isOpen
                 /\ out'.buffer = <<>>
                 /\ ofile'.stream = "null")
          /\ ~out.isOpen =>
                (result' = "ok" /\ UNCHANGED <<out, ofile, odisk>>)]_vars

\* The part of C9 the code keeps: a close that raises nothing has flushed the
\* buffer, released the handle and cleared isOpen, and a close of a stream that
\* is not open does nothing.
C9_CloseAfterSuccess ==
    [][CloseOut =>
          /\ (out.isOpen /\ result' = "ok") =>
                (/\ ~out'.isOpen
                 /\ out'.buffer = <<>>
                 /\ ofile'.stream = "null"
                 /\ odisk' = WriteAt(odisk, ofile.pos, out.buffer))
          /\ ~out.isOpen =>
                (result' = "ok" /\ UNCHANGED <<out, ofile, odisk>>)]_vars

\* C11: the handle's position always lies in [0, length]: after construction,
\* after every setPosition call, failing ones included, and after every read.
C11_PositionInRange ==
    /\ 0 <= InputFile_getPosition(file)
    /\ InputFile_getPosition(file) <= InputFile_getLength(file)

\* C12: whenever the handle's position is at or past the end of the file's
\* data, a read of any size returns FILE_EOF and leaves the handle as it is.
C12_ReadAtEndReturnsEOF ==
    InputFile_getPosition(file) >= Len(disk) =>
        \A length \in 1 .. MaxReq :
            \A rd \in InputFile_read(file, disk, length) :
                rd.ret = FILE_EOF /\ rd.file = file

\* C13: once the raw output handle is closed every further write, setPosition,
\* setLength, getLength and flush fails, and write fails with Closed.
C13_ClosedHandleFails ==
    [][ofile.stream = "null" =>
          /\ (\/ RawWrite
              \/ RawFlush
              \/ \E pos \in Positions : RawSetPosition(pos)
              \/ RawGetLength
              \/ \E length \in 0 .. MaxLen : RawSetLength(length))
                 => result' # "ok"
          /\ RawWrite => result' = "Closed"]_vars

\* C14: length() of every stream, the original and each clone, is the size the
\* file had when the stream was opened, in every state: after any seek, fill,
\* clone or close and after the file was cut or extended by another process.
C14_LengthIsSnapshot ==
    \A s \in Streams :
        inp[s].created => SimpleFSIndexInput_length(file) = Len(FileBytes)

\* Witness of C14: the file has been cut short, a fill has moved the handle,
\* a clone exists and the original is closed.
C14_Witness ==
    /\ Len(disk) < Len(FileBytes)
    /\ InputFile_getPosition(file) > 0
    /\ inp[0].closed
    /\ \E c \in Streams : inp[c].isClone
    /\ \A s \in Streams :
          inp[s].created => SimpleFSIndexInput_length(file) = Len(FileBytes)

\* C15: clone() reads nothing and changes neither the handle nor the source
\* stream; the clone has the source's chunkSize, is marked isClone and starts at
\* the source's logical position; afterwards a seek or a fill on one stream
\* changes the logical position of no other stream.
C15_CloneIsIndependentCopy ==
    [][/\ \A s, n \in Streams :
             Clone(s, n) =>
                 /\ file' = file /\ disk' = disk /\ thr' = thr
                 /\ inp'[s] = inp[s]
                 /\ inp'[n].created /\ inp'[n].isClone
                 /\ inp'[n].chunkSize = inp[s].chunkSize
                 /\ getFilePointer(inp'[n]) = getFilePointer(inp[s])
       /\ \A s \in Streams, pos \in Positions :
             Seek(s, pos) => \A u \in Streams \ {s} : inp'[u] = inp[u]
       /\ \A t \in Threads :
             (Enter(t) \/ Loop(t)) =>
                 \A u \in Streams \ {thr[t].cur} : inp'[u] = inp[u]]_vars

\* Witness of C15: a clone taken at position 1 is still there after the source
\* has been filled on to the end of the file.
C15_Witness ==
    /\ inp[1].isClone
    /\ getFilePointer(inp[1]) = 1
    /\ getFilePointer(inp[0]) = MaxLen
    /\ InputFile_getPosition(file) = MaxLen
    /\ \A t \in Threads : thr[t].pc = "idle"
    /\ result = "ok"

\* C16: every step that reads or writes the handle's position or accesses the
\* file runs under the handle's lock: the reposition of a fill takes the lock,
\* its physical reads are made by the holder, and isValid runs only when the
\* lock is there for it to take.
C16_HandleAccessUnderLock ==
    [][\A t \in Threads :
          /\ Enter(t) => SyncLock_available(lock)
          /\ Loop(t) => lock = t
          /\ (\E s \in Streams : IsValid(t, s)) => SyncLock_available(lock)]_vars

\* C17: in every iteration of the fill loop the size passed to the physical
\* read is min(length - total, chunkSize), at least 1 and at most the bytes
\* still wanted, for every chunkSize up to the largest int32_t and every total
\* that short reads can produce.
C17_ReadLengthIsMin ==
    \A t \in Threads :
        (thr[t].pc = "loop" /\ total(t) < thr[t].length) =>
            \A rl \in readLengths(total(t), inp[thr[t].cur].chunkSize,
                                  thr[t].length) :
                /\ rl = Min(thr[t].length - total(t), inp[thr[t].cur].chunkSize)
                /\ 1 <= rl
                /\ rl <= thr[t].length - total(t)

\* C18: seek on an input stream touches neither the handle nor the file; the
\* handle's position changes only inside a fill, by a setPosition made exactly
\* when it differs from the stream's logical position or by the reads; and a
\* fill that ends successfully leaves the handle where the stream now stands,
\* so that the stream's next sequential fill needs no setPosition.
C18_SeekIsLogical ==
    [][/\ \A s \in Streams, pos \in Positions :
             Seek(s, pos) =>
                 /\ file' = file /\ disk' = disk /\ lock' = lock
                 /\ getFilePointer(inp'[s]) = pos
       /\ InputFile_getPosition(file') # InputFile_getPosition(file) =>
             \E t \in Threads :
                 \/ /\ Enter(t)
                    /\ needsSetPosition(fillStart(t), file)
                    /\ InputFile_getPosition(file') = fillStart(t)
                 \/ Loop(t)
       /\ \A t \in Threads :
             (Enter(t) /\ ~needsSetPosition(fillStart(t), file)) => file' = file
       /\ \A t \in Threads :
             (Loop(t) /\ Ends(t) /\ result' = "ok") =>
                 ~needsSetPosition(getFilePointer(inp'[thr[t].cur]), file')]_vars

\* Witness of C18: the only stream has filled to the end of the file and has
\* then been sought back to 1, and the handle still stands at the end.
C18_Witness ==
    /\ ~inp[1].created
    /\ getFilePointer(inp[0]) = 1
    /\ InputFile_getPosition(file) = MaxLen
    /\ \A t \in Threads : thr[t].pc = "idle"
    /\ result = "ok"

\* The file after everything the ofstream and then the stream's buffer hold has
\* been written at the write cursor.
FlushedAtCursor ==
    WriteAt(WriteAt(odisk, ofile.pos, ofile.pending),
            ofile.pos + Len(ofile.pending), out.buffer)

\* C19, last clause included: seek(pos) on the output stream writes the buffered bytes
\* through at the old write cursor, then moves the raw handle to pos, and as a
\* result of the seek no buffered byte is written at or after the new position:
\* the file from offset pos on is what it was before the seek.
C19_SeekWritesBelowNewPosition ==
    [][\A pos \in Positions :
          (SeekOut(pos) /\ ofile.good /\ pos >= 0) =>
              /\ odisk' = FlushedAtCursor
              /\ out'.buffer = <<>>
              /\ ofile'.pos = pos
              /\ \A k \in pos + 1 .. Len(odisk') :
                    k <= Len(odisk) /\ odisk'[k] = odisk[k]]_vars

\* C19: seek(pos) on the output stream, its raw handle being good, writes every
\* buffered byte through at the old write cursor, wherever pos lies, empties the
\* buffer and only then moves the raw handle to pos (a negative pos fails after
\* the flush); on a raw handle that has failed the seek raises IOFailure and
\* the file is not changed.
C19_SeekFlushesAtOldCursor ==
    [][\A pos \in Positions :
          SeekOut(pos) =>
              IF ofile.good
              THEN /\ odisk' = FlushedAtCursor
                   /\ out'.buffer = <<>>
                   /\ ofile'.pending = <<>>
                   /\ pos >= 0 => (ofile'.pos = pos /\ result' = "ok")
                   /\ pos < 0 => result' = "IOFailure"
              ELSE /\ odisk' = odisk
                   /\ result' = "IOFailure"]_vars

\* Witness of C19: the stream has been sought back to 0 and every byte written
\* before, the one still buffered when the second was flushed included, is in
\* the file in the order written.
C19_Witness ==
    /\ olog.last = "seek" /\ result = "ok"
    /\ ofile.pos = 0
    /\ out.buffer = <<>>
    /\ out.bufferSize = MaxBuffer
    /\ Len(olog.written) = MaxWrites
    /\ odisk = olog.written

\* C20: the lock is released on every exit of a fill, the failing exits
\* included, so that a fill of any stream sharing the handle is never blocked
\* forever: every thread that waits for the lock to fill goes on to take it.
C20_FillNeverBlockedForever ==
    \A u \in Threads : (thr[u].pc = "acquire") ~> (thr[u].pc # "acquire")

\* The part of C20 the code keeps: every step that ends a fill, by return or by
\* an error, leaves the lock free; the lock is held only by a thread inside its
\* read loop; and a fill made after another fill has failed receives the file's
\* bytes at its own logical position.
C20_LockReleasedOnEveryExit ==
    [][/\ \A t \in Threads : Ends(t) => lock' = "free"
       /\ lock' # "free" => thr'[lock'].pc = "loop"
       /\ \A u \in Threads :
             (thr'[u].pc = "loop" /\ Len(thr'[u].b) > 0) =>
                 IsFileRange(thr'[u].b, getFilePointer(inp'[thr'[u].cur]))]_vars

====
